---- MODULE Spec2Model ----
(***************************************************************************)
(* Model of api/mashup.py: the POST handler, input validation and the      *)
(* mashup pipeline create_mashup (download_and_convert, trim_and_merge,    *)
(* create_zip, send_email) with its except/finally clauses.                *)
(*                                                                         *)
(* Python strings are sequences of one-character strings, so that strip(), *)
(* lower(), the `in` substring test, '; '.join and the f-strings are       *)
(* computed as the code computes them.                                     *)
(***************************************************************************)
EXTENDS Integers, Sequences, FiniteSets, TLC

(***************************************************************************)
(* Bounds of the model.                                                    *)
(***************************************************************************)
\* largest number of sources one acquisition leaves in downloads/
MaxAcquired == 2
\* size of the external input of one run: the number of sources acquired
\* plus the length of the error text returned by the notification provider
MaxInput == 5

\* number of runs of create_mashup that execute concurrently
NumRuns == 2

(***************************************************************************)
(* String literals of the source.                                          *)
(***************************************************************************)
\* mashup.py:25: 'Singer name is required'
MsgSingerRequired ==
    <<"S","i","n","g","e","r"," ","n","a","m","e"," ","i","s"," ","r","e","q",
      "u","i","r","e","d">>

\* mashup.py:28: 'Number of videos is required'
MsgNumRequired ==
    <<"N","u","m","b","e","r"," ","o","f"," ","v","i","d","e","o","s"," ","i",
      "s"," ","r","e","q","u","i","r","e","d">>

\* mashup.py:33: 'Number of videos must be greater than 10'
MsgNumTooSmall ==
    <<"N","u","m","b","e","r"," ","o","f"," ","v","i","d","e","o","s"," ","m",
      "u","s","t"," ","b","e"," ","g","r","e","a","t","e","r"," ","t","h","a",
      "n"," ","1","0">>

\* mashup.py:35: 'Number of videos must be a valid integer'
MsgNumNotInt ==
    <<"N","u","m","b","e","r"," ","o","f"," ","v","i","d","e","o","s"," ","m",
      "u","s","t"," ","b","e"," ","a"," ","v","a","l","i","d"," ","i","n","t",
      "e","g","e","r">>

\* mashup.py:38: 'Duration is required'
MsgDurRequired ==
    <<"D","u","r","a","t","i","o","n"," ","i","s"," ","r","e","q","u","i","r",
      "e","d">>

\* mashup.py:43: 'Duration must be greater than 20 seconds'
MsgDurTooSmall ==
    <<"D","u","r","a","t","i","o","n"," ","m","u","s","t"," ","b","e"," ","g",
      "r","e","a","t","e","r"," ","t","h","a","n"," ","2","0"," ","s","e","c",
      "o","n","d","s">>

\* mashup.py:45: 'Duration must be a valid integer'
MsgDurNotInt ==
    <<"D","u","r","a","t","i","o","n"," ","m","u","s","t"," ","b","e"," ","a",
      " ","v","a","l","i","d"," ","i","n","t","e","g","e","r">>

\* mashup.py:48: 'Valid email address is required'
MsgEmailRequired ==
    <<"V","a","l","i","d"," ","e","m","a","i","l"," ","a","d","d","r","e","s",
      "s"," ","i","s"," ","r","e","q","u","i","r","e","d">>

\* mashup.py:81: "Could not find videos for '"
MsgCouldNotFind ==
    <<"C","o","u","l","d"," ","n","o","t"," ","f","i","n","d"," ","v","i","d",
      "e","o","s"," ","f","o","r"," ","'">>

\* mashup.py:83: 'Download failed: '
MsgDownloadFailed ==
    <<"D","o","w","n","l","o","a","d"," ","f","a","i","l","e","d",":"," ">>

\* mashup.py:96: 'No audio files were downloaded'
MsgNoDownloaded ==
    <<"N","o"," ","a","u","d","i","o"," ","f","i","l","e","s"," ","w","e","r",
      "e"," ","d","o","w","n","l","o","a","d","e","d">>

\* mashup.py:114: 'No audio files could be processed'
MsgNoProcessed ==
    <<"N","o"," ","a","u","d","i","o"," ","f","i","l","e","s"," ","c","o","u",
      "l","d"," ","b","e"," ","p","r","o","c","e","s","s","e","d">>

\* mashup.py:146: 'RESEND_API_KEY environment variable not set'
MsgNoApiKey ==
    <<"R","E","S","E","N","D","_","A","P","I","_","K","E","Y"," ","e","n","v",
      "i","r","o","n","m","e","n","t"," ","v","a","r","i","a","b","l","e"," ",
      "n","o","t"," ","s","e","t">>

\* mashup.py:190: 'Resend API error: '
MsgResendError ==
    <<"R","e","s","e","n","d"," ","A","P","I"," ","e","r","r","o","r",":"," ">>

\* mashup.py:194: 'Failed to send email: '
MsgFailedToSend ==
    <<"F","a","i","l","e","d"," ","t","o"," ","s","e","n","d"," ","e","m","a",
      "i","l",":"," ">>

\* mashup.py:223: 'Request timed out. Try reducing number of videos to 3-5, or upgrade to Vercel Pro for longer timeout.'
MsgTimedOut ==
    <<"R","e","q","u","e","s","t"," ","t","i","m","e","d"," ","o","u","t",".",
      " ","T","r","y"," ","r","e","d","u","c","i","n","g"," ","n","u","m","b",
      "e","r"," ","o","f"," ","v","i","d","e","o","s"," ","t","o"," ","3","-",
      "5",","," ","o","r"," ","u","p","g","r","a","d","e"," ","t","o"," ","V",
      "e","r","c","e","l"," ","P","r","o"," ","f","o","r"," ","l","o","n","g",
      "e","r"," ","t","i","m","e","o","u","t",".">>

\* mashup.py:302: 'Mashup created and sent to '
MsgSentTo ==
    <<"M","a","s","h","u","p"," ","c","r","e","a","t","e","d"," ","a","n","d",
      " ","s","e","n","t"," ","t","o"," ">>

\* mashup.py:281: '; '
JoinSep ==
    <<";"," ">>

\* mashup.py:222: 'timeout'
KwTimeout ==
    <<"t","i","m","e","o","u","t">>

\* mashup.py:222: 'time'
KwTime ==
    <<"t","i","m","e">>

\* AttributeError raised by data['singer'].strip() (mashup.py:24): "'NoneType' object has no attribute 'strip'"
MsgNoStrip ==
    <<"'","N","o","n","e","T","y","p","e","'"," ","o","b","j","e","c","t"," ",
      "h","a","s"," ","n","o"," ","a","t","t","r","i","b","u","t","e"," ","'",
      "s","t","r","i","p","'">>

\* TypeError raised by re.match (mashup.py:17): 'expected string or bytes-like object'
MsgReType ==
    <<"e","x","p","e","c","t","e","d"," ","s","t","r","i","n","g"," ","o","r",
      " ","b","y","t","e","s","-","l","i","k","e"," ","o","b","j","e","c","t">>

\* json.JSONDecodeError raised by json.loads (mashup.py:268): 'Expecting value: line 1 column 1 (char 0)'
MsgJsonError ==
    <<"E","x","p","e","c","t","i","n","g"," ","v","a","l","u","e",":"," ","l",
      "i","n","e"," ","1"," ","c","o","l","u","m","n"," ","1"," ","(","c","h",
      "a","r"," ","0",")">>

\* OSError text of a full disk: '[Errno 28] No space left on device'
MsgNoSpace ==
    <<"[","E","r","r","n","o"," ","2","8","]"," ","N","o"," ","s","p","a","c",
      "e"," ","l","e","f","t"," ","o","n"," ","d","e","v","i","c","e">>

\* text of a socket/HTTP read timeout: 'Read timed out.'
MsgReadTimedOut ==
    <<"R","e","a","d"," ","t","i","m","e","d"," ","o","u","t",".">>

\* pydub CouldntDecodeError text: 'Decoding failed. ffmpeg returned error code: 1'
MsgDecodeFailed ==
    <<"D","e","c","o","d","i","n","g"," ","f","a","i","l","e","d","."," ","f",
      "f","m","p","e","g"," ","r","e","t","u","r","n","e","d"," ","e","r","r",
      "o","r"," ","c","o","d","e",":"," ","1">>

(***************************************************************************)
(* Python string operations.                                               *)
(***************************************************************************)
Uppers ==
    <<"A","B","C","D","E","F","G","H","I","J","K","L","M","N","O","P","Q","R",
      "S","T","U","V","W","X","Y","Z">>

Lowers ==
    <<"a","b","c","d","e","f","g","h","i","j","k","l","m","n","o","p","q","r",
      "s","t","u","v","w","x","y","z">>

Digits ==
    <<"0","1","2","3","4","5","6","7","8","9">>

Range(f) ==
    {f[i] : i \in DOMAIN f}

Letters ==
    Range(Uppers) \cup Range(Lowers)

Whitespace ==
    {" ", "\n", "\t"}

\* str.lower() on one character
LowerChar(c) ==
    IF c \in Range(Uppers)
    THEN Lowers[CHOOSE k \in 1..26 : Uppers[k] = c]
    ELSE c

\* str.lower()
Lower(s) ==
    [i \in 1..Len(s) |-> LowerChar(s[i])]

\* the substring test  `sub in s`
Contains(sub, s) ==
    \E i \in 0..(Len(s) - Len(sub)) : SubSeq(s, i + 1, i + Len(sub)) = sub

\* str.strip(): drops leading and trailing whitespace
Strip(s) ==
    LET keep == {i \in 1..Len(s) : s[i] \notin Whitespace}
    IN  IF keep = {} THEN <<>>
        ELSE SubSeq(s, CHOOSE i \in keep : \A j \in keep : i <= j,
                       CHOOSE i \in keep : \A j \in keep : i >= j)

\* sep.join(parts)
RECURSIVE Join(_, _)
Join(sep, parts) ==
    IF parts = <<>> THEN <<>>
    ELSE IF Len(parts) = 1 THEN parts[1]
    ELSE parts[1] \o sep \o Join(sep, Tail(parts))

\* value of a string of decimal digits
RECURSIVE DigitsValue(_)
DigitsValue(s) ==
    IF s = <<>> THEN 0
    ELSE 10 * DigitsValue(SubSeq(s, 1, Len(s) - 1))
         + ((CHOOSE k \in 1..10 : Digits[k] = s[Len(s)]) - 1)

(***************************************************************************)
(* JSON values of the request body: a string, an integer or null.          *)
(***************************************************************************)
JStr(s) ==
    [t |-> "str", s |-> s, n |-> 0]

JInt(n) ==
    [t |-> "int", s |-> <<>>, n |-> n]

JNull ==
    [t |-> "null", s |-> <<>>, n |-> 0]

\* int(v): ok is FALSE where Python raises ValueError or TypeError
PyInt(v) ==
    IF v.t = "int" THEN [ok |-> TRUE, n |-> v.n]
    ELSE IF v.t = "str"
    THEN LET b == Strip(v.s)
             neg == b /= <<>> /\ b[1] = "-"
             d == IF b /= <<>> /\ b[1] \in {"-", "+"} THEN Tail(b) ELSE b
         IN  IF d /= <<>> /\ \A i \in 1..Len(d) : d[i] \in Range(Digits)
             THEN [ok |-> TRUE,
                   n |-> IF neg THEN 0 - DigitsValue(d) ELSE DigitsValue(d)]
             ELSE [ok |-> FALSE, n |-> 0]
    ELSE [ok |-> FALSE, n |-> 0]

(***************************************************************************)
(* validate_email and validate_inputs.                                     *)
(***************************************************************************)
LocalChars ==
    Letters \cup Range(Digits) \cup {".", "_", "%", "+", "-"}

DomainChars ==
    Letters \cup Range(Digits) \cup {".", "-"}

\* s matches [a-zA-Z0-9._%+-]+@[a-zA-Z0-9.-]+\.[a-zA-Z]{2,} in full
EmailPattern(s) ==
    \E a \in 1..Len(s), d \in 1..Len(s) :
        /\ 1 < a /\ a + 1 < d /\ Len(s) - d >= 2
        /\ s[a] = "@" /\ s[d] = "."
        /\ \A i \in 1..(a - 1) : s[i] \in LocalChars
        /\ \A i \in (a + 1)..(d - 1) : s[i] \in DomainChars
        /\ \A i \in (d + 1)..Len(s) : s[i] \in Letters

\* re.match('^...$', email) is not None; $ also matches before a final \n
validate_email(email) ==
    \/ EmailPattern(email)
    \/ /\ email /= <<>>
       /\ email[Len(email)] = "\n"
       /\ EmailPattern(SubSeq(email, 1, Len(email) - 1))

Keys ==
    {"singer", "num_videos", "duration", "email"}

\* num_videos compared with < instead of <=: the boundary 10 passes
NumVideosErrorsBoundary(data) ==
    IF "num_videos" \notin DOMAIN data THEN <<MsgNumRequired>>
    ELSE LET r == PyInt(data["num_videos"])
         IN  IF ~r.ok THEN <<MsgNumNotInt>>
             ELSE IF r.n < 10 THEN <<MsgNumTooSmall>>
             ELSE <<>>

\* the error the num_videos block appends, if any
NumVideosErrors(data) ==
    IF "num_videos" \notin DOMAIN data THEN <<MsgNumRequired>>
    ELSE LET r == PyInt(data["num_videos"])
         IN  IF ~r.ok THEN <<MsgNumNotInt>>
             ELSE IF r.n <= 10 THEN <<MsgNumTooSmall>>
             ELSE <<>>

\* the error the duration block appends, if any
DurationErrors(data) ==
    IF "duration" \notin DOMAIN data THEN <<MsgDurRequired>>
    ELSE LET r == PyInt(data["duration"])
         IN  IF ~r.ok THEN <<MsgDurNotInt>>
             ELSE IF r.n <= 20 THEN <<MsgDurTooSmall>>
             ELSE <<>>

\* validate_inputs(data): the list of errors, or the exception it raises
\* when singer or email is present but not a string
validate_inputs(data) ==
    IF "singer" \in DOMAIN data /\ data["singer"].t /= "str"
    THEN [raised |-> TRUE, msg |-> MsgNoStrip, errors |-> <<>>]
    ELSE IF "email" \in DOMAIN data /\ data["email"].t /= "str"
    THEN [raised |-> TRUE, msg |-> MsgReType, errors |-> <<>>]
    ELSE [raised |-> FALSE, msg |-> <<>>,
          errors |->
            (IF "singer" \notin DOMAIN data \/ Strip(data["singer"].s) = <<>>
             THEN <<MsgSingerRequired>> ELSE <<>>)
            \o NumVideosErrors(data)
            \o DurationErrors(data)
            \o (IF "email" \notin DOMAIN data
                   \/ ~validate_email(data["email"].s)
                THEN <<MsgEmailRequired>> ELSE <<>>)]

(***************************************************************************)
(* Inputs of the model: request bodies, sources, external error texts.     *)
(***************************************************************************)
SingerValues ==
    {JNull, JStr(<<" ">>), JStr(<<"A","b"," ">>), JStr(<<"T","i","m","e">>)}

NumVideosValues ==
    {JNull, JStr(<<"1","x">>), JInt(10), JInt(11)}

DurationValues ==
    {JStr(<<"x">>), JInt(20), JStr(<<"2","1">>)}

EmailValues ==
    {JNull, JStr(<<"a","@","b",".","c","o">>), JStr(<<"a","@","b",".","c">>),
     JStr(<<"a","b",".","c","o">>)}

\* the JSON objects a request body can decode to: every key present or not
Requests ==
    LET full == [singer : SingerValues, num_videos : NumVideosValues,
                 duration : DurationValues, email : EmailValues]
    IN  {[k \in S |-> r[k]] : r \in full, S \in SUBSET Keys}

\* lengths, in milliseconds, of the downloaded sources
SourceLengths ==
    {15000, 30000}

\* what downloads/ can hold after an acquisition, in acquisition order
Acquisitions ==
    UNION {[1..n -> SourceLengths] : n \in 0..MaxAcquired}

\* the orders in which os.listdir can return the files of a directory
Listings(files) ==
    {p \in [1..Len(files) -> 1..Len(files)] :
        \A i, j \in 1..Len(files) : i /= j => p[i] /= p[j]}

\* str(e) of the exceptions raised by the external libraries and the OS
ExternalErrors ==
    {MsgNoSpace, MsgReadTimedOut, MsgDecodeFailed}

TextAlphabet ==
    {"T", "i", "m", "e"}

\* response.text of the notification provider, in a run that acquired
\* n sources
ProviderTexts(n) ==
    UNION {[1..k -> TextAlphabet] : k \in 0..(MaxInput - n)}

\* the status code send_email accepts
StatusOK == 200

\* response.status_code of the notification provider
StatusCodes ==
    {StatusOK, 422}

\* values of os.environ.get('RESEND_API_KEY'): unset, empty or set
ApiKeys ==
    {<<>>, <<"r","e","_","1">>}

(***************************************************************************)
(* Pure parts of the pipeline.                                             *)
(***************************************************************************)
Min(a, b) ==
    IF a <= b THEN a ELSE b

\* AudioSegment.from_mp3(file): the decoded source
Audio(src, ms) ==
    [src |-> src, ms |-> ms]

\* a trim that always yields duration * 1000 ms, padding a shorter source
TrimPadded(audio, duration) ==
    [audio EXCEPT !.ms = duration * 1000]

\* audio[:duration * 1000]
Trim(audio, duration) ==
    [audio EXCEPT !.ms = Min(audio.ms, duration * 1000)]

\* the bytes of an exported mp3 file: one byte per 5 s of audio, carrying
\* the source it was cut from
RECURSIVE Mp3Bytes(_)
Mp3Bytes(clips) ==
    IF clips = <<>> THEN <<>>
    ELSE [i \in 1..(clips[1].ms \div 5000) |-> clips[1].src]
         \o Mp3Bytes(Tail(clips))

\* length of the run of equal bytes that b starts with (b not empty)
RunLength(b) ==
    CHOOSE k \in 1..Len(b) :
        /\ \A i \in 1..k : b[i] = b[1]
        /\ k = Len(b) \/ b[k + 1] /= b[1]

\* zipfile.ZIP_DEFLATED, as a lossless run-length coding: each run of
\* equal bytes becomes the pair <<length, byte>>
RECURSIVE Deflate(_)
Deflate(b) ==
    IF b = <<>> THEN <<>>
    ELSE <<RunLength(b), b[1]>> \o Deflate(SubSeq(b, RunLength(b) + 1, Len(b)))

\* 'mashup.mp3', the arcname of line 134
ArcName ==
    <<"m","a","s","h","u","p",".","m","p","3">>

\* 'mashup.zip', the attachment filename of line 170
AttachmentName ==
    <<"m","a","s","h","u","p",".","z","i","p">>

\* zipf.write(mp3_file, arcname): the entry added to the archive
ZipEntry(arcname, bytes) ==
    [name |-> arcname, data |-> Deflate(bytes)]

\* ord(c) for the characters of file names
Ascii(c) ==
    IF c \in Range(Lowers) THEN 96 + (CHOOSE k \in 1..26 : Lowers[k] = c)
    ELSE IF c \in Range(Uppers) THEN 64 + (CHOOSE k \in 1..26 : Uppers[k] = c)
    ELSE IF c \in Range(Digits) THEN 47 + (CHOOSE k \in 1..10 : Digits[k] = c)
    ELSE IF c = "." THEN 46
    ELSE IF c = "/" THEN 47
    ELSE 63

\* f.read() of the archive (line 150): per entry the signature 'PK', the
\* length and bytes of the name, the length and bytes of the packed data
RECURSIVE ZipBytes(_)
ZipBytes(entries) ==
    IF entries = <<>> THEN <<>>
    ELSE LET e == entries[1]
         IN  <<80, 75, Len(e.name)>>
             \o [i \in 1..Len(e.name) |-> Ascii(e.name[i])]
             \o <<Len(e.data)>> \o e.data
             \o ZipBytes(Tail(entries))

\* the base64 alphabet
B64Chars ==
    Uppers \o Lowers \o Digits \o <<"+", "/">>

\* base64.b64encode(...).decode('utf-8') (line 150): three bytes become
\* four characters, the last group is padded with '='
RECURSIVE B64Encode(_)
B64Encode(b) ==
    IF b = <<>> THEN <<>>
    ELSE LET n == Len(b)
             v == b[1] * 65536 + (IF n >= 2 THEN b[2] ELSE 0) * 256
                               + (IF n >= 3 THEN b[3] ELSE 0)
             c1 == B64Chars[(v \div 262144) + 1]
             c2 == B64Chars[((v \div 4096) % 64) + 1]
             c3 == B64Chars[((v \div 64) % 64) + 1]
             c4 == B64Chars[(v % 64) + 1]
         IN  IF n = 1 THEN <<c1, c2, "=", "=">>
             ELSE IF n = 2 THEN <<c1, c2, c3, "=">>
             ELSE <<c1, c2, c3, c4>> \o B64Encode(SubSeq(b, 4, n))

\* the f-string of download_and_convert's inner raise, rewrapped by its
\* except clause
DownloadNotFound(singer) ==
    MsgDownloadFailed \o MsgCouldNotFind \o singer \o <<"'">>

\* the missing-key check moved inside the try of send_email: its exception
\* is rewrapped like a failed send
MissingKeyErrorInsideTry ==
    MsgFailedToSend \o MsgNoApiKey

\* the exception that leaves send_email when RESEND_API_KEY is not set:
\* raised at line 146, before the try, so the except clause of line 192
\* does not rewrap it
MissingKeyError ==
    MsgNoApiKey

\* the f-string of send_email's raise on a status other than 200, rewrapped
\* by its except clause
SendRejected(text) ==
    MsgFailedToSend \o MsgResendError \o text

\* the except clause of create_mashup: the message of the exception that
\* leaves it
Classify(error_msg) ==
    IF Contains(KwTimeout, Lower(error_msg)) \/ Contains(KwTime, Lower(error_msg))
    THEN MsgTimedOut
    ELSE error_msg

\* a finally clause without the inner try/except: an exception raised by
\* rmtree replaces whatever was in flight
FinallyUnguarded(exc, rmtree_raised) ==
    IF rmtree_raised THEN <<MsgNoSpace>> ELSE exc

\* the finally clause of create_mashup: the exception in flight after the
\* removal attempt; an exception raised by rmtree is swallowed
Finally(exc, rmtree_raised) ==
    exc

(***************************************************************************)
(* State.                                                                  *)
(*   pc            position of the request in do_POST / create_mashup      *)
(*   data          the decoded request body                                *)
(*   wfile         the responses written to the client                     *)
(*   workspaces    the scratch directories that exist                      *)
(*   temp_dir      create_mashup's temp_dir (0: not assigned)              *)
(*   created, destroyed   scratch directories made by mkdtemp and removed  *)
(*                 by rmtree                                               *)
(*   downloads     files of temp_dir/downloads, in acquisition order       *)
(*   mp3_files, step, trimmed_files, final_audio   locals of trim_and_merge*)
(*                 (step: iterations of the trim loop done)                *)
(*   trimmed_dir   files of temp_dir/trimmed: ordinal -> audio             *)
(*   mashup_file, zip_file   temp_dir/mashup.mp3 and temp_dir/mashup.zip   *)
(*   api_key, response   locals of send_email                              *)
(*   sent          the requests posted to the notification provider        *)
(*   exc           the exception in flight, <<>> if none                   *)
(*   rmtree_raised whether shutil.rmtree raised                            *)
(*   log           the calls made so far, in order                         *)
(*                                                                         *)
(* Concurrent runs of create_mashup over one temporary-file area:          *)
(*   rpc, rdir     position and temp_dir of each run (0: not assigned)     *)
(*   dirs          the scratch directories that exist                      *)
(*   files         the files in them: directory, name, run that wrote it   *)
(*   consumed      for each file a stage has read: the reader, the writer  *)
(***************************************************************************)
VARIABLES pc, data, wfile, workspaces, temp_dir, created, destroyed,
          downloads, mp3_files, step, trimmed_files, trimmed_dir,
          final_audio, mashup_file, zip_file, api_key, response, sent,
          exc, rmtree_raised, log,
          rpc, rdir, dirs, files, consumed

\* the state of the single request followed through do_POST
seqVars ==
    <<pc, data, wfile, workspaces, temp_dir, created, destroyed,
      downloads, mp3_files, step, trimmed_files, trimmed_dir,
      final_audio, mashup_file, zip_file, api_key, response, sent,
      exc, rmtree_raised, log>>

\* the state of the concurrent runs
concVars ==
    <<rpc, rdir, dirs, files, consumed>>

vars ==
    <<seqVars, concVars>>

\* the concurrent runs, and the names mkdtemp can give a directory
Runs ==
    1..NumRuns

DirNames ==
    1..NumRuns

handlerVars ==
    <<data, wfile>>

dirVars ==
    <<workspaces, temp_dir, created, destroyed, rmtree_raised>>

trimVars ==
    <<mp3_files, step, trimmed_files, trimmed_dir, final_audio, mashup_file>>

sendVars ==
    <<api_key, response, sent>>

\* the arguments do_POST passes to create_mashup (lines 287-290)
singer ==
    Strip(data["singer"].s)

num_videos ==
    PyInt(data["num_videos"]).n

duration ==
    PyInt(data["duration"]).n

email ==
    Strip(data["email"].s)

Init ==
    /\ pc = "do_POST"
    /\ data = [k \in {} |-> JNull]
    /\ wfile = <<>>
    /\ workspaces = {}
    /\ temp_dir = 0
    /\ created = 0
    /\ destroyed = 0
    /\ downloads = <<>>
    /\ mp3_files = <<>>
    /\ step = 0
    /\ trimmed_files = <<>>
    /\ trimmed_dir = <<>>
    /\ final_audio = <<>>
    /\ mashup_file = <<>>
    /\ zip_file = <<>>
    /\ api_key = <<>>
    /\ response = <<>>
    /\ sent = <<>>
    /\ exc = <<>>
    /\ rmtree_raised = FALSE
    /\ log = <<>>
    /\ rpc = [r \in Runs |-> "mkdtemp"]
    /\ rdir = [r \in Runs |-> 0]
    /\ dirs = {}
    /\ files = {}
    /\ consumed = {}

\* a JSON response of do_POST
Reply(status, success, text) ==
    [status |-> status, success |-> success, text |-> text]

\* a stage of create_mashup raises: control passes to the except clause
Raise(msg) ==
    /\ exc' = <<msg>>
    /\ pc' = "except"

(***************************************************************************)
(* do_POST, lines 263-293: parse the body, validate, extract.              *)
(***************************************************************************)
\* Content-Length is 0 or the body is a JSON object
do_POST_validate ==
    /\ pc = "do_POST"
    /\ \E d \in Requests :
        LET v == validate_inputs(d)
        IN  /\ data' = d
            /\ IF v.raised
               THEN /\ wfile' = Append(wfile, Reply(500, FALSE, v.msg))
                    /\ pc' = "done"
               ELSE IF v.errors /= <<>>
               THEN /\ wfile' = Append(wfile,
                                    Reply(400, FALSE, Join(JoinSep, v.errors)))
                    /\ pc' = "done"
               ELSE /\ wfile' = wfile
                    /\ pc' = "mkdtemp"
    /\ UNCHANGED <<dirVars, downloads, trimVars, zip_file, sendVars, exc, log>>
    /\ UNCHANGED concVars

\* json.loads raises on a body that is not JSON
do_POST_malformed ==
    /\ pc = "do_POST"
    /\ wfile' = Append(wfile, Reply(500, FALSE, MsgJsonError))
    /\ pc' = "done"
    /\ UNCHANGED <<data, dirVars, downloads, trimVars, zip_file, sendVars,
                   exc, log>>
    /\ UNCHANGED concVars

(***************************************************************************)
(* create_mashup, line 199: tempfile.mkdtemp(), outside the try.           *)
(***************************************************************************)
\* mkdtemp returns a directory that did not exist
create_mashup_mkdtemp ==
    /\ pc = "mkdtemp"
    /\ LET d == CHOOSE n \in 1..(Cardinality(workspaces) + 1) :
                    n \notin workspaces
       IN  /\ temp_dir' = d
           /\ workspaces' = workspaces \cup {d}
    /\ created' = created + 1
    /\ log' = Append(log, "mkdtemp")
    /\ pc' = "download"
    /\ UNCHANGED <<handlerVars, destroyed, rmtree_raised, downloads, trimVars,
                   zip_file, sendVars, exc>>
    /\ UNCHANGED concVars

\* mkdtemp raises: nothing is created, the error goes straight to do_POST
create_mashup_mkdtemp_fails ==
    /\ pc = "mkdtemp"
    /\ \E t \in ExternalErrors : exc' = <<t>>
    /\ log' = Append(log, "mkdtemp")
    /\ pc' = "respond"
    /\ UNCHANGED <<handlerVars, dirVars, downloads, trimVars, zip_file,
                   sendVars>>
    /\ UNCHANGED concVars

(***************************************************************************)
(* download_and_convert, lines 53-85.                                      *)
(***************************************************************************)
download_and_convert ==
    /\ pc = "download"
    /\ log' = Append(log, "download_and_convert")
    /\ \/ \* extract_info returns a result; with ignoreerrors any number of
          \* the items, at most num_videos, became mp3 files
          \E a \in Acquisitions :
            /\ Len(a) <= num_videos
            /\ downloads' = a
            /\ pc' = "listdir"
            /\ exc' = exc
       \/ \* extract_info returns nothing (line 80)
          /\ Raise(DownloadNotFound(singer))
          /\ downloads' = downloads
       \/ \* YoutubeDL raises (line 82)
          \E t \in ExternalErrors :
            /\ Raise(MsgDownloadFailed \o t)
            /\ downloads' = downloads
    /\ UNCHANGED <<handlerVars, dirVars, trimVars, zip_file, sendVars>>
    /\ UNCHANGED concVars

(***************************************************************************)
(* trim_and_merge, lines 88-126.                                           *)
(***************************************************************************)
\* lines 93-96: list downloads/, in whatever order the OS returns it
trim_and_merge_listdir ==
    /\ pc = "listdir"
    /\ log' = Append(log, "trim_and_merge")
    /\ \E p \in Listings(downloads) :
        /\ mp3_files' = p
        /\ IF p = <<>>
           THEN Raise(MsgNoDownloaded)
           ELSE pc' = "trim" /\ exc' = exc
    /\ UNCHANGED <<handlerVars, dirVars, downloads, step, trimmed_files,
                   trimmed_dir, final_audio, mashup_file, zip_file, sendVars>>
    /\ UNCHANGED concVars

\* the trim loop with a counter that advances only on success: a failed
\* source consumes no ordinal
trim_and_merge_trim_dense ==
    /\ pc = "trim"
    /\ step < Len(mp3_files)
    /\ LET idx == Len(trimmed_files) + 1
           file == mp3_files[step + 1]
       IN  \/ /\ trimmed_dir' =
                    [o \in DOMAIN trimmed_dir \cup {idx} |->
                        IF o = idx
                        THEN Trim(Audio(file, downloads[file]), duration)
                        ELSE trimmed_dir[o]]
              /\ trimmed_files' = Append(trimmed_files, idx)
           \/ UNCHANGED <<trimmed_dir, trimmed_files>>
    /\ step' = step + 1
    /\ UNCHANGED <<pc, handlerVars, dirVars, downloads, mp3_files, final_audio,
                   mashup_file, zip_file, sendVars, exc, log>>
    /\ UNCHANGED concVars

\* the trim loop without its try/except: a failing source aborts the run
trim_and_merge_trim_aborts ==
    /\ pc = "trim"
    /\ step < Len(mp3_files)
    /\ LET idx == step + 1
           file == mp3_files[idx]
       IN  \/ /\ trimmed_dir' =
                    [o \in DOMAIN trimmed_dir \cup {idx} |->
                        IF o = idx
                        THEN Trim(Audio(file, downloads[file]), duration)
                        ELSE trimmed_dir[o]]
              /\ trimmed_files' = Append(trimmed_files, idx)
              /\ UNCHANGED <<pc, exc>>
           \/ /\ \E t \in ExternalErrors : Raise(t)
              /\ UNCHANGED <<trimmed_dir, trimmed_files>>
    /\ step' = step + 1
    /\ UNCHANGED <<handlerVars, dirVars, downloads, mp3_files, final_audio,
                   mashup_file, zip_file, sendVars, log>>
    /\ UNCHANGED concVars

\* the trim loop with an output path that does not depend on idx: every
\* clip is exported to the same file
trim_and_merge_trim_one_path ==
    /\ pc = "trim"
    /\ step < Len(mp3_files)
    /\ LET idx == 1
           file == mp3_files[step + 1]
       IN  \/ /\ trimmed_dir' =
                    [o \in DOMAIN trimmed_dir \cup {idx} |->
                        IF o = idx
                        THEN Trim(Audio(file, downloads[file]), duration)
                        ELSE trimmed_dir[o]]
              /\ trimmed_files' = Append(trimmed_files, idx)
           \/ UNCHANGED <<trimmed_dir, trimmed_files>>
    /\ step' = step + 1
    /\ UNCHANGED <<pc, handlerVars, dirVars, downloads, mp3_files, final_audio,
                   mashup_file, zip_file, sendVars, exc, log>>
    /\ UNCHANGED concVars

\* lines 100-111: one iteration of the trim loop, idx = step + 1
trim_and_merge_trim ==
    /\ pc = "trim"
    /\ step < Len(mp3_files)
    /\ LET idx == step + 1
           file == mp3_files[idx]
       IN  \/ \* decoded, trimmed and exported as trimmed_<idx>.mp3
              /\ trimmed_dir' =
                    [o \in DOMAIN trimmed_dir \cup {idx} |->
                        IF o = idx
                        THEN Trim(Audio(file, downloads[file]), duration)
                        ELSE trimmed_dir[o]]
              /\ trimmed_files' = Append(trimmed_files, idx)
           \/ \* from_mp3 or export raises: caught, the file is skipped
              /\ UNCHANGED <<trimmed_dir, trimmed_files>>
    /\ step' = step + 1
    /\ UNCHANGED <<pc, handlerVars, dirVars, downloads, mp3_files, final_audio,
                   mashup_file, zip_file, sendVars, exc, log>>
    /\ UNCHANGED concVars

\* the end of the loop without the emptiness check of line 113
trim_and_merge_check_missing ==
    /\ pc = "trim"
    /\ step = Len(mp3_files)
    /\ pc' = "merge"
    /\ UNCHANGED <<handlerVars, dirVars, downloads, trimVars, zip_file,
                   sendVars, exc, log>>
    /\ UNCHANGED concVars

\* lines 113-117: the loop is over
trim_and_merge_check ==
    /\ pc = "trim"
    /\ step = Len(mp3_files)
    /\ IF trimmed_files = <<>>
       THEN Raise(MsgNoProcessed)
       ELSE pc' = "merge" /\ exc' = exc
    /\ UNCHANGED <<handlerVars, dirVars, downloads, trimVars, zip_file,
                   sendVars, log>>
    /\ UNCHANGED concVars

\* lines 118-120: one iteration of the merge loop
trim_and_merge_merge ==
    /\ pc = "merge"
    /\ Len(final_audio) < Len(trimmed_files)
    /\ LET file == trimmed_files[Len(final_audio) + 1]
       IN  \/ /\ final_audio' = Append(final_audio, trimmed_dir[file])
              /\ UNCHANGED <<pc, exc>>
           \/ \* from_mp3 raises: nothing catches it inside trim_and_merge
              /\ \E t \in ExternalErrors : Raise(t)
              /\ UNCHANGED final_audio
    /\ UNCHANGED <<handlerVars, dirVars, downloads, mp3_files, step,
                   trimmed_files, trimmed_dir, mashup_file, zip_file,
                   sendVars, log>>
    /\ UNCHANGED concVars

\* lines 123-126: export the mashup
trim_and_merge_export ==
    /\ pc = "merge"
    /\ Len(final_audio) = Len(trimmed_files)
    /\ \/ /\ mashup_file' = <<final_audio>>
          /\ pc' = "zip"
          /\ exc' = exc
       \/ /\ \E t \in ExternalErrors : Raise(t)
          /\ UNCHANGED mashup_file
    /\ UNCHANGED <<handlerVars, dirVars, downloads, mp3_files, step,
                   trimmed_files, trimmed_dir, final_audio, zip_file,
                   sendVars, log>>
    /\ UNCHANGED concVars

(***************************************************************************)
(* create_zip, lines 129-136.                                              *)
(***************************************************************************)
\* packaging wrapped in its own try/except that records the error and lets
\* the run go on to delivery
create_zip_error_ignored ==
    /\ pc = "zip"
    /\ log' = Append(log, "create_zip")
    /\ \/ /\ zip_file' = <<ZipEntry(ArcName, Mp3Bytes(mashup_file[1]))>>
          /\ pc' = "send"
          /\ exc' = exc
       \/ /\ \E t \in ExternalErrors : exc' = <<t>>
          /\ pc' = "send"
          /\ UNCHANGED zip_file
    /\ UNCHANGED <<handlerVars, dirVars, downloads, trimVars, sendVars>>
    /\ UNCHANGED concVars

\* zipf.write(mp3_file) without the arcname: the entry is named by the
\* path of the file
create_zip_no_arcname ==
    /\ pc = "zip"
    /\ log' = Append(log, "create_zip")
    /\ \/ /\ zip_file' = <<ZipEntry(<<"t","m","p","/">> \o ArcName,
                                    Mp3Bytes(mashup_file[1]))>>
          /\ pc' = "send"
          /\ exc' = exc
       \/ /\ \E t \in ExternalErrors : Raise(t)
          /\ UNCHANGED zip_file
    /\ UNCHANGED <<handlerVars, dirVars, downloads, trimVars, sendVars>>
    /\ UNCHANGED concVars

create_zip ==
    /\ pc = "zip"
    /\ log' = Append(log, "create_zip")
    /\ \/ \* mode 'w': a new archive; one entry, mashup.mp3, packed from
          \* the bytes of mp3_file
          /\ zip_file' = <<ZipEntry(ArcName, Mp3Bytes(mashup_file[1]))>>
          /\ pc' = "send"
          /\ exc' = exc
       \/ \* ZipFile or write raises
          /\ \E t \in ExternalErrors : Raise(t)
          /\ UNCHANGED zip_file
    /\ UNCHANGED <<handlerVars, dirVars, downloads, trimVars, sendVars>>
    /\ UNCHANGED concVars

(***************************************************************************)
(* send_email, lines 139-194.                                              *)
(***************************************************************************)
\* lines 149-150: the archive read and encoded as base64 text
zip_content ==
    B64Encode(ZipBytes(zip_file))

\* a payload whose attachments list was left empty
email_data_no_attachment(content, recipient_email, name) ==
    [to |-> <<recipient_email>>,
     subject |-> name,
     attachments |-> <<>>]

\* the JSON payload of the post (lines 153-174)
email_data(content, recipient_email, name) ==
    [to |-> <<recipient_email>>,
     subject |-> name,
     attachments |-> <<[filename |-> AttachmentName, content |-> content]>>]

send_email ==
    /\ pc = "send"
    /\ log' = Append(log, "send_email")
    /\ \E key \in ApiKeys :
        /\ api_key' = key
        /\ IF key = <<>>
           THEN \* line 146, outside the try of send_email
                /\ Raise(MissingKeyError)
                /\ UNCHANGED <<response, sent>>
           ELSE \/ \* the provider answers
                   \E status \in StatusCodes :
                     \E text \in (IF status = StatusOK THEN {<<>>}
                                  ELSE ProviderTexts(Len(downloads))) :
                       /\ sent' = Append(sent, email_data(zip_content, email, singer))
                       /\ response' = <<[status_code |-> status, text |-> text]>>
                       /\ IF status = StatusOK
                          THEN pc' = "finally" /\ exc' = exc
                          ELSE Raise(SendRejected(text))
                \/ \* requests.post raises: no answer
                   /\ sent' = Append(sent, email_data(zip_content, email, singer))
                   /\ \E t \in ExternalErrors : Raise(MsgFailedToSend \o t)
                   /\ UNCHANGED response
    /\ UNCHANGED <<handlerVars, dirVars, downloads, trimVars, zip_file>>
    /\ UNCHANGED concVars

(***************************************************************************)
(* create_mashup, lines 219-231: the except and finally clauses.           *)
(***************************************************************************)
\* an except clause that leaves create_mashup without running the cleanup
create_mashup_except_no_cleanup ==
    /\ pc = "except"
    /\ exc' = <<Classify(exc[1])>>
    /\ pc' = "respond"
    /\ UNCHANGED <<handlerVars, dirVars, downloads, trimVars, zip_file,
                   sendVars, log>>
    /\ UNCHANGED concVars

create_mashup_except ==
    /\ pc = "except"
    /\ exc' = <<Classify(exc[1])>>
    /\ pc' = "finally"
    /\ UNCHANGED <<handlerVars, dirVars, downloads, trimVars, zip_file,
                   sendVars, log>>
    /\ UNCHANGED concVars

\* the cleanup written at the end of the try body instead of in a finally
\* clause: it runs only when no stage raised
create_mashup_finally_success_only ==
    /\ pc = "finally"
    /\ IF exc /= <<>>
       THEN UNCHANGED <<workspaces, destroyed, rmtree_raised, log>>
       ELSE /\ log' = Append(log, "rmtree")
            /\ \E raised \in BOOLEAN :
                /\ rmtree_raised' = raised
                /\ IF raised
                   THEN UNCHANGED <<workspaces, destroyed>>
                   ELSE /\ workspaces' = workspaces \ {temp_dir}
                        /\ destroyed' = destroyed + 1
    /\ pc' = "respond"
    /\ UNCHANGED <<handlerVars, temp_dir, created, downloads, trimVars,
                   zip_file, sendVars, exc>>
    /\ UNCHANGED concVars

create_mashup_finally ==
    /\ pc = "finally"
    /\ log' = Append(log, "rmtree")
    /\ \E raised \in BOOLEAN :
        /\ rmtree_raised' = raised
        /\ IF raised
           THEN UNCHANGED <<workspaces, destroyed>>
           ELSE /\ workspaces' = workspaces \ {temp_dir}
                /\ destroyed' = destroyed + 1
        /\ exc' = Finally(exc, raised)
    /\ pc' = "respond"
    /\ UNCHANGED <<handlerVars, temp_dir, created, downloads, trimVars,
                   zip_file, sendVars>>
    /\ UNCHANGED concVars

(***************************************************************************)
(* do_POST, lines 295-316: the response after create_mashup.               *)
(***************************************************************************)
\* a handler that reports success whatever create_mashup did
do_POST_respond_always_success ==
    /\ pc = "respond"
    /\ wfile' = Append(wfile, Reply(200, TRUE, MsgSentTo \o email))
    /\ pc' = "done"
    /\ UNCHANGED <<data, dirVars, downloads, trimVars, zip_file, sendVars,
                   exc, log>>
    /\ UNCHANGED concVars

do_POST_respond ==
    /\ pc = "respond"
    /\ wfile' = Append(wfile,
                       IF exc = <<>>
                       THEN Reply(200, TRUE, MsgSentTo \o email)
                       ELSE Reply(500, FALSE, exc[1]))
    /\ pc' = "done"
    /\ UNCHANGED <<data, dirVars, downloads, trimVars, zip_file, sendVars,
                   exc, log>>
    /\ UNCHANGED concVars

Next ==
    \/ do_POST_validate
    \/ do_POST_malformed
    \/ create_mashup_mkdtemp
    \/ create_mashup_mkdtemp_fails
    \/ download_and_convert
    \/ trim_and_merge_listdir
    \/ trim_and_merge_trim
    \/ trim_and_merge_check
    \/ trim_and_merge_merge
    \/ trim_and_merge_export
    \/ create_zip
    \/ send_email
    \/ create_mashup_except
    \/ create_mashup_finally
    \/ do_POST_respond

Spec ==
    Init /\ [][Next]_vars

(***************************************************************************)
(* Concurrent runs of create_mashup (lines 197-231).  Each run goes        *)
(* through mkdtemp, the four stages and the finally clause; the runs share *)
(* the directory in which mkdtemp creates its directories.  A stage is     *)
(* described by the files of temp_dir it reads and the files it writes.    *)
(***************************************************************************)
InProgress(r) ==
    rpc[r] \notin {"mkdtemp", "done"}

\* run r executes a stage: it reads the files `reads` of its temp_dir and
\* writes the files `writes` there (makedirs: the stage first creates its
\* sub-directory with os.makedirs, which also creates a missing temp_dir),
\* or it raises, as it must when a file it reads is not there
StageStep(r, reads, writes, makedirs, next) ==
    LET d == rdir[r]
        inputs == {f \in files : f.dir = d /\ f.name \in reads}
    IN  /\ \/ /\ d \in dirs \/ makedirs
              /\ \A n \in reads : \E f \in inputs : f.name = n
              /\ consumed' = consumed \cup
                              {[reader |-> r, by |-> f.by] : f \in inputs}
              /\ dirs' = dirs \cup {d}
              /\ files' = {f \in files : ~(f.dir = d /\ f.name \in writes)}
                          \cup {[dir |-> d, name |-> n, by |-> r] : n \in writes}
              /\ rpc' = [rpc EXCEPT ![r] = next]
           \/ /\ rpc' = [rpc EXCEPT ![r] = "finally"]
              /\ UNCHANGED <<dirs, files, consumed>>
        /\ UNCHANGED <<rdir, seqVars>>

\* a temp_dir with a fixed name, created if it does not exist yet
run_mkdtemp_fixed_name ==
    \E r \in Runs :
        /\ rpc[r] = "mkdtemp"
        /\ rdir' = [rdir EXCEPT ![r] = 1]
        /\ dirs' = dirs \cup {1}
        /\ rpc' = [rpc EXCEPT ![r] = "download"]
        /\ UNCHANGED <<files, consumed, seqVars>>

\* line 199: mkdtemp creates a directory under a name that no existing
\* directory has
run_mkdtemp ==
    \E r \in Runs :
        /\ rpc[r] = "mkdtemp"
        /\ \E d \in DirNames \ dirs :
            /\ rdir' = [rdir EXCEPT ![r] = d]
            /\ dirs' = dirs \cup {d}
        /\ rpc' = [rpc EXCEPT ![r] = "download"]
        /\ UNCHANGED <<files, consumed, seqVars>>

\* lines 55-85: fills temp_dir/downloads
run_download_and_convert ==
    \E r \in Runs :
        /\ rpc[r] = "download"
        /\ StageStep(r, {}, {"downloads"}, TRUE, "trim")

\* lines 90-111: lists temp_dir/downloads, fills temp_dir/trimmed
run_trim ==
    \E r \in Runs :
        /\ rpc[r] = "trim"
        /\ StageStep(r, {"downloads"}, {"trimmed"}, TRUE, "merge")

\* lines 116-126: reads temp_dir/trimmed, writes temp_dir/mashup.mp3
run_merge ==
    \E r \in Runs :
        /\ rpc[r] = "merge"
        /\ StageStep(r, {"trimmed"}, {"mashup.mp3"}, FALSE, "zip")

\* lines 131-136: reads temp_dir/mashup.mp3, writes temp_dir/mashup.zip
run_create_zip ==
    \E r \in Runs :
        /\ rpc[r] = "zip"
        /\ StageStep(r, {"mashup.mp3"}, {"mashup.zip"}, FALSE, "send")

\* lines 149-150: reads temp_dir/mashup.zip
run_send_email ==
    \E r \in Runs :
        /\ rpc[r] = "send"
        /\ StageStep(r, {"mashup.zip"}, {}, FALSE, "finally")

\* lines 226-231: rmtree removes temp_dir and everything in it, or raises
\* and is ignored
run_rmtree ==
    \E r \in Runs :
        /\ rpc[r] = "finally"
        /\ \/ /\ rdir[r] \in dirs
              /\ dirs' = dirs \ {rdir[r]}
              /\ files' = {f \in files : f.dir /= rdir[r]}
           \/ UNCHANGED <<dirs, files>>
        /\ rpc' = [rpc EXCEPT ![r] = "done"]
        /\ UNCHANGED <<rdir, consumed, seqVars>>

NextConc ==
    \/ run_mkdtemp
    \/ run_download_and_convert
    \/ run_trim
    \/ run_merge
    \/ run_create_zip
    \/ run_send_email
    \/ run_rmtree

SpecConc ==
    Init /\ [][NextConc]_vars

(***************************************************************************)
(* Properties.                                                             *)
(***************************************************************************)
\* number of calls of e made so far
Calls(e) ==
    Cardinality({i \in 1..Len(log) : log[i] = e})

\* C1 (as claimed): when the run ends, the number of workspaces created
\* equals the number of workspaces destroyed, whichever stage raised.
C1_NoWorkspaceOutlivesRun ==
    pc = "done" => created = destroyed /\ workspaces = {}

\* C1 (amended): when the run ends, every workspace created has had its
\* removal attempted, whichever stage raised or none, and the number created
\* equals the number destroyed unless shutil.rmtree itself raised; in that
\* case the error is swallowed and the directory is left behind.
C1_RemovalAttemptedForEveryWorkspace ==
    pc = "done" =>
        /\ Calls("rmtree") = created
        /\ ~rmtree_raised => (created = destroyed /\ workspaces = {})
        /\ rmtree_raised => (destroyed = 0 /\ workspaces = {temp_dir})

\* a run in which a stage raised and the workspace was removed
C1_Witness ==
    /\ pc = "done"
    /\ exc /= <<>>
    /\ "create_zip" \in Range(log)
    /\ created = 1
    /\ destroyed = 1
    /\ workspaces = {}

\* C2: in a run that created a workspace, removal is attempted exactly once,
\* it is the last call create_mashup makes (no stage runs after it), it has
\* not happened while a stage can still run, and it has happened when the
\* outcome reaches do_POST.
C2_RemovalOnceAfterLastStage ==
    created > 0 =>
        IF pc \in {"respond", "done"}
        THEN Calls("rmtree") = 1 /\ log[Len(log)] = "rmtree"
        ELSE Calls("rmtree") = 0

\* a failed run: packaging raised, then the removal, then the response
C2_Witness ==
    /\ pc = "done"
    /\ exc /= <<>>
    /\ log = <<"mkdtemp", "download_and_convert", "trim_and_merge",
               "create_zip", "rmtree">>

\* C3: a failure of the removal changes neither the exception in flight
\* (none after a success, the stage's error after a failure) nor the
\* response: success is still reported as success, the error as that error.
C3_RemovalFailureKeepsOutcome ==
    [][/\ (pc = "finally" /\ rmtree_raised') => exc' = exc
       /\ (pc = "respond" /\ rmtree_raised) =>
            wfile' = <<IF exc = <<>>
                       THEN Reply(200, TRUE, MsgSentTo \o email)
                       ELSE Reply(500, FALSE, exc[1])>>]_vars

\* the removal failed after a successful delivery and success was reported
C3_Witness ==
    /\ pc = "done"
    /\ rmtree_raised
    /\ response /= <<>>
    /\ response[1].status_code = StatusOK
    /\ wfile = <<Reply(200, TRUE, MsgSentTo \o email)>>

\* trim_and_merge went through its listing and trim loop and no source
\* yielded a clip (no source at all, or every trim failed)
NoneSurvived ==
    /\ "trim_and_merge" \in Range(log)
    /\ step = Len(mp3_files)
    /\ trimmed_files = <<>>

\* C4: if no acquired source survives trimming, or none was acquired, the
\* run ends with the no-usable-input error of trim_and_merge and neither
\* create_zip nor send_email is ever called.
C4_NoClipNoPackaging ==
    NoneSurvived =>
        /\ "create_zip" \notin Range(log)
        /\ "send_email" \notin Range(log)
        /\ zip_file = <<>>
        /\ sent = <<>>
        /\ pc \in {"trim", "except", "finally", "respond", "done"}
        /\ pc = "done" =>
            wfile = <<Reply(500, FALSE,
                            IF downloads = <<>> THEN MsgNoDownloaded
                            ELSE MsgNoProcessed)>>

\* two sources were acquired, both trims failed, the run ended
C4_Witness ==
    /\ pc = "done"
    /\ Len(downloads) = 2
    /\ step = 2
    /\ trimmed_files = <<>>
    /\ wfile = <<Reply(500, FALSE, MsgNoProcessed)>>

\* C5 (as claimed): the clips of the exported mashup are in the order in
\* which their sources were acquired (a source is named by its position in
\* the acquisition).
C5_ClipsInAcquisitionOrder ==
    mashup_file /= <<>> =>
        \A i, j \in 1..Len(mashup_file[1]) :
            i < j => mashup_file[1][i].src < mashup_file[1][j].src

\* C6 (as claimed): after the trim loop the ordinals of the processed clips
\* are exactly 1..k, k the number of sources processed successfully.
C6_OrdinalsDense ==
    (pc = "merge" /\ step = Len(mp3_files)) =>
        Range(trimmed_files) = 1..Len(trimmed_files)

\* C6 (amended): a source whose trimming fails yields no clip but still
\* consumes its ordinal: after the trim loop the ordinal of every processed
\* clip is the 1-based position of its source in the listing, so the
\* ordinals are pairwise distinct, strictly increasing and within 1..N,
\* with a gap at every source that failed; k of them exist, one file each.
C6_OrdinalsAreListingPositions ==
    (pc = "merge" /\ step = Len(mp3_files)) =>
        /\ \A i \in 1..Len(trimmed_files) :
            /\ trimmed_files[i] \in 1..Len(mp3_files)
            /\ trimmed_dir[trimmed_files[i]].src = mp3_files[trimmed_files[i]]
        /\ \A i, j \in 1..Len(trimmed_files) :
            i < j => trimmed_files[i] < trimmed_files[j]
        /\ DOMAIN trimmed_dir = Range(trimmed_files)
        /\ Cardinality(DOMAIN trimmed_dir) = Len(trimmed_files)

\* the first of two sources failed: the only clip has ordinal 2
C6_Witness ==
    /\ pc = "merge"
    /\ Len(mp3_files) = 2
    /\ trimmed_files = <<2>>

\* C7: a failure inside the trim loop raises nothing and ends nothing: the
\* loop goes on to the next source until every source has been visited,
\* and when it is over with at least one clip the run goes on to the merge
\* loop with no exception in flight.
C7_TrimFailureDoesNotAbort ==
    [][/\ (pc = "trim" /\ step < Len(mp3_files)) =>
            (pc' = "trim" /\ step' = step + 1 /\ exc' = <<>>)
       /\ (pc = "trim" /\ step = Len(mp3_files) /\ trimmed_files /= <<>>) =>
            (pc' = "merge" /\ exc' = <<>>)]_vars

\* a run in which the first trim failed, the second succeeded, and the
\* mashup was composed, packaged and delivered
C7_Witness ==
    /\ pc = "done"
    /\ Len(mp3_files) = 2
    /\ trimmed_files = <<2>>
    /\ mashup_file /= <<>>
    /\ zip_file /= <<>>
    /\ Len(sent) = 1
    /\ wfile = <<Reply(200, TRUE, MsgSentTo \o email)>>

\* the request carries a num_videos that is an integer not above 10, a
\* duration that is an integer not above 20, or fails another check
Invalid(d) ==
    \/ "num_videos" \in DOMAIN d /\ PyInt(d["num_videos"]).ok
                                 /\ ~(PyInt(d["num_videos"]).n > 10)
    \/ "duration" \in DOMAIN d /\ PyInt(d["duration"]).ok
                               /\ ~(PyInt(d["duration"]).n > 20)
    \/ validate_inputs(d).raised
    \/ validate_inputs(d).errors /= <<>>

\* C8: a request that is invalid is answered with a single error response
\* and nothing else happens: no call is made, no workspace is created,
\* nothing is downloaded, packaged or sent.
C8_InvalidRequestRunsNoStage ==
    (pc /= "do_POST" /\ Invalid(data)) =>
        /\ pc = "done"
        /\ log = <<>>
        /\ created = 0
        /\ workspaces = {}
        /\ downloads = <<>> /\ mp3_files = <<>> /\ mashup_file = <<>>
        /\ zip_file = <<>>
        /\ sent = <<>>
        /\ Len(wfile) = 1
        /\ ~wfile[1].success
        /\ wfile[1].status \in {400, 500}

\* num_videos is 10, every other field is valid: rejected with the
\* greater-than-10 message
C8_Witness ==
    /\ pc = "done"
    /\ DOMAIN data = Keys
    /\ data["num_videos"] = JInt(10)
    /\ wfile = <<Reply(400, FALSE, MsgNumTooSmall)>>

\* send_email was called and found no API key
KeyMissing ==
    "send_email" \in Range(log) /\ api_key = <<>>

\* C9: when RESEND_API_KEY is missing at delivery time, the run fails with
\* the configuration error, which does not carry the prefix of a failed
\* send, nothing is posted to the provider, and the removal of the workspace
\* is still attempted before the error is reported.
C9_MissingKeyIsConfigurationError ==
    KeyMissing =>
        /\ zip_file /= <<>>
        /\ sent = <<>>
        /\ response = <<>>
        /\ exc = <<MsgNoApiKey>>
        /\ ~Contains(MsgFailedToSend, exc[1])
        /\ pc \in {"respond", "done"} => Calls("rmtree") = 1
        /\ pc = "done" => wfile = <<Reply(500, FALSE, MsgNoApiKey)>>

\* the run reached delivery without a key, was cleaned up and answered
C9_Witness ==
    /\ pc = "done"
    /\ KeyMissing
    /\ destroyed = 1

\* C10 (as claimed): whenever the provider returns a status other than 200,
\* the caller receives a delivery error whose message includes the
\* provider's raw error text.
C10_DeliveryErrorCarriesProviderText ==
    (pc = "done" /\ response /= <<>> /\ response[1].status_code /= StatusOK) =>
        /\ Len(wfile) = 1
        /\ wfile[1].status = 500
        /\ Contains(MsgFailedToSend, wfile[1].text)
        /\ Contains(response[1].text, wfile[1].text)

\* download_and_convert was called and raised: no later stage ran
DownloadFailed ==
    /\ "download_and_convert" \in Range(log)
    /\ "trim_and_merge" \notin Range(log)
    /\ exc /= <<>>

\* C11 (as claimed): when acquisition fails as a whole, the error message
\* the caller receives names the search term.
C11_AcquisitionErrorNamesSearchTerm ==
    (pc = "done" /\ DownloadFailed) =>
        /\ Len(wfile) = 1
        /\ Contains(singer, wfile[1].text)

\* C12: a request receives no response before it is done and exactly one
\* when it is done; the response is the success confirmation, naming the
\* destination address, exactly when send_email posted to the provider and
\* the provider answered 200, and a single error response otherwise.
C12_OneResponseSuccessOnlyAfterDelivery ==
    /\ pc /= "done" => wfile = <<>>
    /\ pc = "done" =>
        /\ Len(wfile) = 1
        /\ wfile[1].success <=>
              /\ "send_email" \in Range(log)
              /\ Len(sent) = 1
              /\ response /= <<>>
              /\ response[1].status_code = StatusOK
        /\ wfile[1].success =>
              /\ wfile[1].status = 200
              /\ wfile[1].text = MsgSentTo \o email
              /\ sent[1].to = <<email>>
        /\ ~wfile[1].success => wfile[1].status \in {400, 500}

\* the provider rejected the delivery: one error response, no success
C12_Witness ==
    /\ pc = "done"
    /\ response /= <<>>
    /\ response[1].status_code /= StatusOK
    /\ Len(wfile) = 1
    /\ ~wfile[1].success

\* the stages of create_mashup, in the order of lines 206-215
Stages ==
    <<"download_and_convert", "trim_and_merge", "create_zip", "send_email">>

IsStage(e) ==
    e \in Range(Stages)

\* the stages called so far, in order
StageLog ==
    SelectSeq(log, IsStage)

\* C13: the stages called are always a prefix of acquire, process/compose,
\* package, deliver (in that order, each at most once); once a stage has
\* raised the run is in its except/finally/response part and no further
\* stage is ever called.
C13_StagesInOrderUntilFirstFailure ==
    /\ [](/\ StageLog = SubSeq(Stages, 1, Len(StageLog))
          /\ exc /= <<>> => pc \in {"except", "finally", "respond", "done"})
    /\ [][exc /= <<>> => StageLog' = StageLog]_vars

\* trim_and_merge raised: packaging and delivery never ran
C13_Witness ==
    /\ pc = "done"
    /\ exc /= <<>>
    /\ StageLog = <<"download_and_convert", "trim_and_merge">>

\* the message of a failure that has no time-based cause: an unknown
\* search term, a missing credential, a rejection by the provider
NoTimeCause(msg) ==
    \/ msg = DownloadNotFound(singer)
    \/ msg = MsgNoApiKey
    \/ /\ response /= <<>>
       /\ response[1].status_code /= StatusOK
       /\ msg = SendRejected(response[1].text)

\* C18 (as claimed): the except clause of create_mashup leaves the message
\* of a failure that has no time-based cause unchanged.
C18_OnlyTimeoutsAreRewritten ==
    [][(pc = "except" /\ NoTimeCause(exc[1])) => exc' = exc]_vars

\* total length, in ms, of a sequence of clips
RECURSIVE TotalMs(_)
TotalMs(clips) ==
    IF clips = <<>> THEN 0
    ELSE clips[1].ms + TotalMs(Tail(clips))

\* the sum over the sources of min(clip duration, source length), in ms
RECURSIVE SumOfMin(_, _)
SumOfMin(lengths, seconds) ==
    IF lengths = <<>> THEN 0
    ELSE (IF lengths[1] < seconds * 1000 THEN lengths[1] ELSE seconds * 1000)
         + SumOfMin(Tail(lengths), seconds)

\* C14: when every acquired source survives processing, the length of the
\* exported mashup is the sum over the sources of min(duration, length of
\* the source); a source shorter than duration contributes its full length.
C14_DurationIsSumOfMin ==
    (mashup_file /= <<>> /\ Len(trimmed_files) = Len(downloads)) =>
        TotalMs(mashup_file[1]) = SumOfMin(downloads, duration)

\* a 15 s source and a 30 s source, clips of 21 s: 15 s + 21 s
C14_Witness ==
    /\ mashup_file /= <<>>
    /\ downloads = <<15000, 30000>>
    /\ Len(trimmed_files) = 2
    /\ duration = 21
    /\ TotalMs(mashup_file[1]) = 36000

\* C19: the exported mashup holds one clip per successfully trimmed source
\* and nothing else: as many clips as trims succeeded (files written to
\* trimmed/), output paths pairwise distinct, the i-th clip is the clip of
\* the i-th successful source, no source twice, and no source whose trim
\* failed.
C19_EachTrimmedSourceExactlyOnce ==
    mashup_file /= <<>> =>
        LET clips == mashup_file[1]
        IN  /\ Len(clips) = Len(trimmed_files)
            /\ Len(clips) = Cardinality(DOMAIN trimmed_dir)
            /\ \A i, j \in 1..Len(trimmed_files) :
                  i /= j => /\ trimmed_files[i] /= trimmed_files[j]
                            /\ clips[i].src /= clips[j].src
            /\ \A i \in 1..Len(clips) :
                  clips[i].src = mp3_files[trimmed_files[i]]
            /\ \A p \in 1..Len(mp3_files) :
                  p \notin DOMAIN trimmed_dir =>
                      \A i \in 1..Len(clips) : clips[i].src /= mp3_files[p]

\* both sources trimmed: two clips; and one failed: it is not in the mashup
C19_Witness ==
    /\ mashup_file /= <<>>
    /\ Len(mp3_files) = 2
    /\ trimmed_files = <<1, 2>>
    /\ Len(mashup_file[1]) = 2

\* reading back a trimmed clip raised in the merge loop
MergeFailed ==
    /\ "trim_and_merge" \in Range(log)
    /\ step = Len(mp3_files)
    /\ trimmed_files /= <<>>
    /\ Len(final_audio) < Len(trimmed_files)
    /\ exc /= <<>>

\* C20 (as claimed): when reading back a trimmed clip fails in the merge
\* loop, the run aborts with that error: the except clause passes it on
\* unchanged and it is what the caller receives; no mashup is exported,
\* create_zip and send_email are not called, and the removal of the
\* workspace is still attempted.
C20_MergeFailureAbortsWithThatError ==
    /\ [](MergeFailed =>
            /\ pc \in {"except", "finally", "respond", "done"}
            /\ mashup_file = <<>>
            /\ zip_file = <<>>
            /\ sent = <<>>
            /\ "create_zip" \notin Range(log)
            /\ "send_email" \notin Range(log)
            /\ pc \in {"respond", "done"} => Calls("rmtree") = 1
            /\ pc = "done" => wfile = <<Reply(500, FALSE, exc[1])>>)
    /\ [][(pc = "except" /\ MergeFailed) => exc' = exc]_vars

\* unpacking of a run-length coded entry
RECURSIVE Inflate(_)
Inflate(d) ==
    IF d = <<>> THEN <<>>
    ELSE [i \in 1..d[1] |-> d[2]] \o Inflate(SubSeq(d, 3, Len(d)))

\* C15: the archive written by create_zip holds exactly one entry, named
\* mashup.mp3, and unpacking that entry yields exactly the bytes of the
\* exported mashup.
C15_ArchiveHoldsTheMashup ==
    "create_zip" \in Range(log) =>
        \/ zip_file = <<>> /\ exc /= <<>>
        \/ /\ Len(zip_file) = 1
           /\ zip_file[1].name = ArcName
           /\ Inflate(zip_file[1].data) = Mp3Bytes(mashup_file[1])
           /\ Inflate(zip_file[1].data) /= <<>>

\* an archive made from a mashup of two clips: 3 bytes of source 1 and 4
\* of source 2, packed as two runs
C15_Witness ==
    /\ pc = "send"
    /\ Len(zip_file) = 1
    /\ zip_file[1].data = <<3, 1, 4, 2>>
    /\ Mp3Bytes(mashup_file[1]) = <<1, 1, 1, 2, 2, 2, 2>>

\* position of a character in the base64 alphabet
B64Index(c) ==
    (CHOOSE k \in 1..64 : B64Chars[k] = c) - 1

\* base64 decoding: four characters become three bytes, less the padding
RECURSIVE B64Decode(_)
B64Decode(s) ==
    IF Len(s) < 4 THEN <<>>
    ELSE LET pad == IF s[3] = "=" THEN 2 ELSE IF s[4] = "=" THEN 1 ELSE 0
             v == B64Index(s[1]) * 262144 + B64Index(s[2]) * 4096
                  + (IF pad = 2 THEN 0 ELSE B64Index(s[3]) * 64)
                  + (IF pad >= 1 THEN 0 ELSE B64Index(s[4]))
             bytes == <<v \div 65536, (v \div 256) % 256, v % 256>>
         IN  SubSeq(bytes, 1, 3 - pad) \o B64Decode(SubSeq(s, 5, Len(s)))

\* C16: in a run that ends with the success response, exactly one request
\* was posted to the provider, addressed to the one recipient email, with
\* exactly one attachment, and decoding the attachment's base64 content
\* gives the archive byte for byte (hence the same size).
C16_OnePostCarryingTheArchive ==
    (pc = "done" /\ Len(wfile) = 1 /\ wfile[1].success) =>
        /\ Len(sent) = 1
        /\ sent[1].to = <<email>>
        /\ Len(sent[1].attachments) = 1
        /\ sent[1].attachments[1].filename = AttachmentName
        /\ B64Decode(sent[1].attachments[1].content) = ZipBytes(zip_file)
        /\ Len(B64Decode(sent[1].attachments[1].content)) = Len(ZipBytes(zip_file))
        /\ ZipBytes(zip_file) /= <<>>

\* a completed run whose archive of 18 bytes went out as 24 characters
C16_Witness ==
    /\ pc = "done"
    /\ Len(wfile) = 1
    /\ wfile[1].success
    /\ Len(sent) = 1
    /\ Len(ZipBytes(zip_file)) = 18
    /\ Len(sent[1].attachments[1].content) = 24

\* C17: runs in progress have pairwise distinct workspaces, which exist;
\* every file in the workspace of a run in progress was written by that
\* run; every file a run has read was written by that same run; and a
\* removal removes only a directory that no run still in progress uses,
\* with files written only by the run that removes it.
C17_WorkspacesAreNotShared ==
    /\ [](/\ \A r1, r2 \in Runs :
                (r1 /= r2 /\ InProgress(r1) /\ InProgress(r2))
                    => rdir[r1] /= rdir[r2]
          /\ \A r \in Runs :
                (InProgress(r) /\ rpc[r] /= "finally") => rdir[r] \in dirs
          /\ \A r \in Runs : \A f \in files :
                (InProgress(r) /\ f.dir = rdir[r]) => f.by = r
          /\ \A c \in consumed : c.reader = c.by)
    /\ [][\A d \in dirs \ dirs' :
            /\ \A r \in Runs :
                  rpc'[r] \notin {"mkdtemp", "done"} => rdir'[r] /= d
            /\ \A f \in files :
                  f.dir = d => \E r \in Runs : /\ rpc[r] = "finally"
                                              /\ rpc'[r] = "done"
                                              /\ f.by = r]_vars

\* one run is done and its workspace removed while another, about to
\* send, still has the files it wrote and read
C17_Witness ==
    \E r1, r2 \in Runs :
        /\ r1 /= r2
        /\ rpc[r1] = "done"
        /\ rdir[r1] \notin dirs
        /\ rpc[r2] = "send"
        /\ rdir[r2] \in dirs
        /\ [reader |-> r2, by |-> r2] \in consumed
        /\ [dir |-> rdir[r2], name |-> "mashup.zip", by |-> r2] \in files

====
